---- MODULE Spec2Model ----
(***************************************************************************)
(* A model of package ppath (github.com/maa3x/ppath): the Path value type  *)
(* and its filesystem operations, with Path.MergeMove modelled step by     *)
(* step (one action per filesystem call or stat it makes) over an explicit *)
(* call stack.                                                             *)
(*                                                                         *)
(* The filesystem is a function from the paths that exist to their nodes.  *)
(* A path is the sequence of its segments below a base directory (the      *)
(* empty sequence), which always exists and is a directory.  os.Stat,      *)
(* os.Rename, os.RemoveAll, os.MkdirAll and os.ReadDir follow the Go       *)
(* standard library on Linux.  Mutating calls and os.ReadDir may also fail *)
(* for reasons outside the tree (permission denied, I/O error): at most    *)
(* MaxFaults such failures are injected in a run.  os.Stat is taken to     *)
(* report the tree truthfully.  Symbolic and hard links are not modelled.  *)
(*                                                                         *)
(* Spec     one goroutine calls MergeMove on a tree built beforehand.      *)
(* SpecConc two goroutines call MergeMove with no lock between them.       *)
(* SpecLive one goroutine calls MergeMove on any tree within LiveDepth    *)
(*          and LiveNodes and is not kept from its next step for ever.     *)
(* SpecOps  one call of Move, Copy, Truncate, Create or MkdirIfNotExist,   *)
(*          each a single step from call to return.                        *)
(* SpecStr  one call of a function on the text of a path (IsChildOf,       *)
(*          IsParentOf, QueryAdd, QuerySet, WithQuery); a string is the    *)
(*          sequence of its characters.                                    *)
(***************************************************************************)
EXTENDS Naturals, Sequences, FiniteSets

\* ------------------------------------------------------------- bounds ----
\* Longest path (in segments) of the trees the run starts from and of the
\* arguments of a call.
MaxDepth == 3

\* Most nodes below the base directory in the tree a call starts from.
MaxNodes == 4

\* Most failures of filesystem primitives injected in one run.
MaxFaults == 1

\* File names, in the order os.ReadDir lists them (sorted by name).
NameSeq == <<"a", "b">>

Names == {NameSeq[k] : k \in 1..Len(NameSeq)}

\* The goroutines that call into the package.
Procs == {1}

VARIABLES
    fs,      \* the filesystem: existing path -> node
    phase,   \* "setup": the tree is being built; "run": a call is in progress or over
    stack,   \* stack[pr]: the MergeMove frames of goroutine pr, innermost last
    ret,     \* ret[pr]: what the last call that returned gave: an error (<<>> is
             \* nil) from an operation on the filesystem, the result of a function
    call,    \* call[pr]: the arguments of the top-level call and its state
    fs0,     \* the filesystem when the (first) top-level call was made
    hist,    \* the MergeMove invocations that returned, in order of return
    faults   \* number of injected primitive failures so far

vars == <<fs, phase, stack, ret, call, fs0, hist, faults>>

\* ------------------------------------------------------ path algebra ----
Root == <<>>

RECURSIVE Paths(_)
Paths(n) ==
    IF n = 0 THEN {Root}
    ELSE Paths(n - 1) \cup {Append(p, x) : p \in Paths(n - 1), x \in Names}

IsPrefix(a, b) == Len(a) <= Len(b) /\ SubSeq(b, 1, Len(a)) = a

Prefixes(p) == {SubSeq(p, 1, k) : k \in 0..Len(p)}

Join(p, name) == Append(p, name)

Base(p) == IF p = Root THEN Root ELSE <<p[Len(p)]>>

JoinPath(p, q) == p \o q

Dir(p) == IF p = Root THEN Root ELSE SubSeq(p, 1, Len(p) - 1)

\* ------------------------------------------------------------ nodes -----
\* A file's content is named by the path it was written at, so that files
\* written at different paths differ; other nodes carry no content.
NoData == <<>>

DirNode == [kind |-> "dir", data |-> NoData]

FileNode(c) == [kind |-> "file", data |-> c]

SpecialNode == [kind |-> "special", data |-> NoData]

\* --------------------------------------------------- stat predicates ----
IsExist(f, p) == p \in DOMAIN f

Exists(f, p) == IsExist(f, p)

IsDir(f, p) == p \in DOMAIN f /\ f[p].kind = "dir"

IsRegular(f, p) == p \in DOMAIN f /\ f[p].kind = "file"

\* ------------------------------------------------------- primitives -----
\* The paths at or below p.
Under(f, p) == {q \in DOMAIN f : IsPrefix(p, q)}

\* The tree at p, with paths relative to p.
Subtree(f, p) ==
    [r \in {SubSeq(q, Len(p) + 1, Len(q)) : q \in Under(f, p)} |-> f[p \o r]]

NoErr == <<>>

Layer(msg, name) == [msg |-> msg, name |-> name]

\* An error made by the operating system or by errors.New.
NewErr(msg) == <<Layer(msg, "")>>

\* fmt.Errorf("msg: %w", err)
Errorf(msg, err) == <<Layer(msg, "")>> \o err

\* errz.E(err, msg, "name", name); name is "" when no field is given.
E(err, msg, name) == <<Layer(msg, name)>> \o err

Outcome(err, f) == [err |-> err, fs |-> f]

\* os.RemoveAll: removes p and everything below it; nil when p is absent.
RemoveAll(f, p) == Outcome(NoErr, [q \in DOMAIN f \ Under(f, p) |-> f[q]])

Delete(f, p) == RemoveAll(f, p)

\* os.Mkdir in place of os.MkdirAll: the parent must exist.
Mkdir(f, p) ==
    IF p \in DOMAIN f THEN Outcome(NewErr(IF IsDir(f, p) THEN "EEXIST" ELSE "ENOTDIR"), f)
    ELSE IF Dir(p) \notin DOMAIN f THEN Outcome(NewErr("ENOENT"), f)
    ELSE IF ~IsDir(f, Dir(p)) THEN Outcome(NewErr("ENOTDIR"), f)
    ELSE Outcome(NoErr, [q \in DOMAIN f \cup {p} |-> IF q = p THEN DirNode ELSE f[q]])

\* os.MkdirAll: nil when p is a directory, ENOTDIR when p or an ancestor is
\* something else, otherwise creates every missing directory up to p.
MkdirAll(f, p) ==
    IF \E q \in Prefixes(p) : q \in DOMAIN f /\ f[q].kind # "dir"
    THEN Outcome(NewErr("ENOTDIR"), f)
    ELSE Outcome(NoErr, [q \in DOMAIN f \cup Prefixes(p) |->
                            IF q \in DOMAIN f THEN f[q] ELSE DirNode])

MkdirIfNotExist(f, p) ==
    IF ~IsExist(f, p) THEN MkdirAll(f, p)
    ELSE IF ~IsDir(f, p) THEN Outcome(NewErr("already exists but not a directory"), f)
    ELSE Outcome(NoErr, f)

\* The tree with old moved to new (new and what is below it replaced).
Moved(f, old, new) ==
    LET gone == Under(f, old) \cup Under(f, new)
        here == {new \o SubSeq(q, Len(old) + 1, Len(q)) : q \in Under(f, old)}
    IN  [q \in (DOMAIN f \ gone) \cup here |->
            IF q \in here
            THEN f[old \o SubSeq(q, Len(new) + 1, Len(q))]
            ELSE f[q]]

\* A rename that copies: the old name stays.
RenameKeepsOld(f, old, new) ==
    IF IsDir(f, new) \/ old \notin DOMAIN f \/ ~IsDir(f, Dir(new))
       \/ (IsDir(f, old) /\ (IsPrefix(old, new) \/ new \in DOMAIN f))
    THEN Outcome(NewErr("EINVAL"), f)
    ELSE IF old = new THEN Outcome(NoErr, f)
    ELSE Outcome(NoErr, [q \in DOMAIN f \cup DOMAIN Moved(f, old, new) |->
                            IF q \in DOMAIN f /\ IsPrefix(old, q) THEN f[q]
                            ELSE Moved(f, old, new)[q]])

\* os.Rename on Linux (os.rename in file_unix.go, then rename(2)).
OsRename(f, old, new) ==
    IF IsDir(f, new)
    THEN Outcome(NewErr(IF old \in DOMAIN f THEN "EEXIST" ELSE "ENOENT"), f)
    ELSE IF old \notin DOMAIN f \/ Dir(new) \notin DOMAIN f
    THEN Outcome(NewErr("ENOENT"), f)
    ELSE IF ~IsDir(f, Dir(new)) THEN Outcome(NewErr("ENOTDIR"), f)
    ELSE IF IsDir(f, old) /\ IsPrefix(old, new) THEN Outcome(NewErr("EINVAL"), f)
    ELSE IF IsDir(f, old) /\ new \in DOMAIN f THEN Outcome(NewErr("ENOTDIR"), f)
    ELSE IF old = new THEN Outcome(NoErr, f)
    ELSE Outcome(NoErr, Moved(f, old, new))

\* os.ReadDir: the names in p, sorted.
ReadDirNames(f, p) == SelectSeq(NameSeq, LAMBDA n : Join(p, n) \in DOMAIN f)

ReadDir(f, p) ==
    IF ~IsDir(f, p) THEN [err |-> NewErr("not a directory"), entries |-> <<>>]
    ELSE [err |-> NoErr, entries |-> ReadDirNames(f, p)]

\* ------------------------------------------------------------ state -----
NoFrame == [p |-> Root, dst |-> Root, pc |-> "none", entries |-> <<>>, i |-> 0]

Frame(p, dst) == [p |-> p, dst |-> dst, pc |-> "chkSrc", entries |-> <<>>, i |-> 0]

Idle == [p |-> Root, dst |-> Root, state |-> "idle", last |-> NoFrame]

Init ==
    /\ fs = [q \in {Root} |-> DirNode]
    /\ phase = "setup"
    /\ stack = [pr \in Procs |-> <<>>]
    /\ ret = [pr \in Procs |-> NoErr]
    /\ call = [pr \in Procs |-> Idle]
    /\ fs0 = [q \in {Root} |-> DirNode]
    /\ hist = [pr \in Procs |-> <<>>]
    /\ faults = 0

\* The tree stays within the bounds while it is built.
InBounds(f) ==
    /\ Cardinality(DOMAIN f) <= MaxNodes + 1
    /\ \A q \in DOMAIN f : Len(q) <= MaxDepth

\* ------------------------------------------- building the tree ----------
\* Path.WriteFile(data).
WriteFile(f, p, c) ==
    IF IsDir(f, p) THEN Outcome(NewErr("can not write to a directory"), f)
    ELSE LET m == MkdirIfNotExist(f, Dir(p))
         IN  IF m.err # NoErr THEN Outcome(Errorf("create parent directory", m.err), f)
             ELSE IF p \in DOMAIN m.fs /\ m.fs[p].kind = "special" THEN Outcome(NoErr, m.fs)
             ELSE Outcome(NoErr, [q \in DOMAIN m.fs \cup {p} |->
                                     IF q = p THEN FileNode(c) ELSE m.fs[q]])

DoWriteFile ==
    /\ phase = "setup"
    /\ \E p \in Paths(MaxDepth) \ {Root} :
          LET o == WriteFile(fs, p, p)
          IN  /\ o.err = NoErr
              /\ InBounds(o.fs)
              /\ fs' = o.fs
    /\ UNCHANGED <<phase, stack, ret, call, fs0, hist, faults>>

DoMkdirIfNotExist ==
    /\ phase = "setup"
    /\ \E p \in Paths(MaxDepth) \ {Root} :
          LET o == MkdirIfNotExist(fs, p)
          IN  /\ o.err = NoErr
              /\ InBounds(o.fs)
              /\ fs' = o.fs
    /\ UNCHANGED <<phase, stack, ret, call, fs0, hist, faults>>

\* A file that is neither regular nor a directory (a named pipe, a socket,
\* a device) appears in an existing directory.
Mknod ==
    /\ phase = "setup"
    /\ \E p \in Paths(MaxDepth) \ {Root} :
          /\ p \notin DOMAIN fs
          /\ IsDir(fs, Dir(p))
          /\ InBounds([q \in DOMAIN fs \cup {p} |-> DirNode])
          /\ fs' = [q \in DOMAIN fs \cup {p} |-> IF q = p THEN SpecialNode ELSE fs[q]]
    /\ UNCHANGED <<phase, stack, ret, call, fs0, hist, faults>>

\* ------------------------------------------------- Path.MergeMove -------
Top(pr) == stack[pr][Len(stack[pr])]

At(pr, l) == phase = "run" /\ stack[pr] # <<>> /\ Top(pr).pc = l

SetTop(pr, fr) ==
    stack' = [stack EXCEPT ![pr] = SubSeq(stack[pr], 1, Len(stack[pr]) - 1) \o <<fr>>]

Goto(pr, l) == SetTop(pr, [Top(pr) EXCEPT !.pc = l])

\* return err: the frame is popped and err is handed to the caller.
Return(pr, err) ==
    LET fr   == Top(pr)
        rest == SubSeq(stack[pr], 1, Len(stack[pr]) - 1)
    IN  /\ stack' = [stack EXCEPT ![pr] = rest]
        /\ ret' = [ret EXCEPT ![pr] = err]
        /\ hist' = [hist EXCEPT ![pr] = Append(@, [fr |-> fr, err |-> err])]
        /\ call' = IF rest = <<>>
                   THEN [call EXCEPT ![pr].state = "done", ![pr].last = fr]
                   ELSE call

\* The results a mutating primitive can have: what it does on the tree as it
\* is, or, when that is success, a failure from outside the tree.
Fault(o, failed) == [out |-> o, fault |-> IF failed THEN 1 ELSE 0]

Results(natural, failures) ==
    {Fault(natural, FALSE)} \cup
    (IF natural.err = NoErr /\ faults < MaxFaults
     THEN {Fault(o, TRUE) : o \in failures} ELSE {})

Failed(f) == {Outcome(NewErr("EIO"), f)}

\* p.MergeMove(dst), called by goroutine pr.
Call(pr, p, dst) ==
    /\ phase = "setup"
    /\ call[pr].state = "idle"
    /\ phase' = "run"
    /\ stack' = [stack EXCEPT ![pr] = <<Frame(p, dst)>>]
    /\ call' = [call EXCEPT ![pr] = [p |-> p, dst |-> dst, state |-> "running",
                                     last |-> NoFrame]]
    /\ fs0' = fs
    /\ UNCHANGED <<fs, ret, hist, faults>>

\* MergeMove without its check of the source.
ChkSrcSkipped(pr) ==
    /\ At(pr, "chkSrc")
    /\ Goto(pr, "chkDst")
    /\ UNCHANGED <<fs, phase, ret, call, fs0, hist, faults>>

\* if !p.Exists() { return errz.E("source file does not exist") }
ChkSrc(pr) ==
    /\ At(pr, "chkSrc")
    /\ IF ~Exists(fs, Top(pr).p)
       THEN Return(pr, E(NoErr, "source file does not exist", ""))
       ELSE Goto(pr, "chkDst") /\ UNCHANGED <<ret, hist, call>>
    /\ UNCHANGED <<fs, phase, fs0, faults>>

\* if !dst.Exists() {
ChkDst(pr) ==
    /\ At(pr, "chkDst")
    /\ Goto(pr, IF ~Exists(fs, Top(pr).dst) THEN "mkParent" ELSE "chkReg")
    /\ UNCHANGED <<fs, phase, ret, call, fs0, hist, faults>>

\* The results of dst.Dir().MkdirIfNotExist(): os.MkdirAll may fail after
\* creating some of the missing directories.
MkParentResults(f, d) ==
    Results(MkdirIfNotExist(f, d),
            IF IsExist(f, d) THEN {}
            ELSE {Outcome(NewErr("EIO"), MkdirAll(f, q).fs) : q \in Prefixes(d) \ {d}})

\* if err := dst.Dir().MkdirIfNotExist(); err != nil { return errz.E(err, "create parent directory") }
MkParent(pr) ==
    /\ At(pr, "mkParent")
    /\ \E r \in MkParentResults(fs, Dir(Top(pr).dst)) :
          /\ fs' = r.out.fs
          /\ faults' = faults + r.fault
          /\ IF r.out.err # NoErr
             THEN Return(pr, E(r.out.err, "create parent directory", ""))
             ELSE Goto(pr, "renameStraight") /\ UNCHANGED <<ret, hist, call>>
    /\ UNCHANGED <<phase, fs0>>

\* if err := os.OsRename(string(p), string(dst)); err != nil { return errz.E(err, "rename file") }
\* return nil
RenameStep(pr) ==
    \E r \in Results(OsRename(fs, Top(pr).p, Top(pr).dst), Failed(fs)) :
       /\ fs' = r.out.fs
       /\ faults' = faults + r.fault
       /\ Return(pr, IF r.out.err # NoErr THEN E(r.out.err, "rename file", "") ELSE NoErr)
       /\ UNCHANGED <<phase, fs0>>

RenameStraight(pr) == At(pr, "renameStraight") /\ RenameStep(pr)

\* if p.IsRegular() {
ChkReg(pr) ==
    /\ At(pr, "chkReg")
    /\ Goto(pr, IF IsRegular(fs, Top(pr).p) THEN "chkDstDir" ELSE "chkSrcDir")
    /\ UNCHANGED <<fs, phase, ret, call, fs0, hist, faults>>

\* The file case renaming onto the directory itself, not into it.
ChkDstDirNoJoin(pr) ==
    /\ At(pr, "chkDstDir")
    /\ Goto(pr, IF IsDir(fs, Top(pr).dst) THEN "renameInto" ELSE "chkDstReg")
    /\ UNCHANGED <<fs, phase, ret, call, fs0, hist, faults>>

\* if dst.IsDir() { dst = dst.JoinPath(p.Base())
ChkDstDir(pr) ==
    /\ At(pr, "chkDstDir")
    /\ IF IsDir(fs, Top(pr).dst)
       THEN SetTop(pr, [Top(pr) EXCEPT !.dst = JoinPath(Top(pr).dst, Base(Top(pr).p)),
                                       !.pc = "renameInto"])
       ELSE Goto(pr, "chkDstReg")
    /\ UNCHANGED <<fs, phase, ret, call, fs0, hist, faults>>

RenameInto(pr) == At(pr, "renameInto") /\ RenameStep(pr)

\* The file case without its check that the destination is a regular file.
ChkDstRegSkipped(pr) ==
    /\ At(pr, "chkDstReg")
    /\ Goto(pr, "deleteOld")
    /\ UNCHANGED <<fs, phase, ret, call, fs0, hist, faults>>

\* if !dst.IsRegular() { return errz.E("destination is not a regular file") }
ChkDstReg(pr) ==
    /\ At(pr, "chkDstReg")
    /\ IF ~IsRegular(fs, Top(pr).dst)
       THEN Return(pr, E(NoErr, "destination is not a regular file", ""))
       ELSE Goto(pr, "deleteOld") /\ UNCHANGED <<ret, hist, call>>
    /\ UNCHANGED <<fs, phase, fs0, faults>>

\* The overwrite that stops after deleting the old file.
DeleteOldAndReturn(pr) ==
    /\ At(pr, "deleteOld")
    /\ \E r \in Results(Delete(fs, Top(pr).dst), Failed(fs)) :
          /\ fs' = r.out.fs
          /\ faults' = faults + r.fault
          /\ Return(pr, IF r.out.err # NoErr THEN E(r.out.err, "delete old file", "")
                        ELSE NoErr)
    /\ UNCHANGED <<phase, fs0>>

\* if err := dst.Delete(); err != nil { return errz.E(err, "delete old file") }
DeleteOld(pr) ==
    /\ At(pr, "deleteOld")
    /\ \E r \in Results(Delete(fs, Top(pr).dst), Failed(fs)) :
          /\ fs' = r.out.fs
          /\ faults' = faults + r.fault
          /\ IF r.out.err # NoErr
             THEN Return(pr, E(r.out.err, "delete old file", ""))
             ELSE Goto(pr, "renameOver") /\ UNCHANGED <<ret, hist, call>>
    /\ UNCHANGED <<phase, fs0>>

RenameOver(pr) == At(pr, "renameOver") /\ RenameStep(pr)

\* if !p.IsDir() { return errz.E("source must be a regular file or directory") }
ChkSrcDir(pr) ==
    /\ At(pr, "chkSrcDir")
    /\ IF ~IsDir(fs, Top(pr).p)
       THEN Return(pr, E(NoErr, "source must be a regular file or directory", ""))
       ELSE Goto(pr, "chkDstIsDir") /\ UNCHANGED <<ret, hist, call>>
    /\ UNCHANGED <<fs, phase, fs0, faults>>

\* The directory case without its check of the destination.
ChkDstIsDirSkipped(pr) ==
    /\ At(pr, "chkDstIsDir")
    /\ Goto(pr, "listDir")
    /\ UNCHANGED <<fs, phase, ret, call, fs0, hist, faults>>

\* if !dst.IsDir() { return errz.E("destination is not a directory") }
ChkDstIsDir(pr) ==
    /\ At(pr, "chkDstIsDir")
    /\ IF ~IsDir(fs, Top(pr).dst)
       THEN Return(pr, E(NoErr, "destination is not a directory", ""))
       ELSE Goto(pr, "listDir") /\ UNCHANGED <<ret, hist, call>>
    /\ UNCHANGED <<fs, phase, fs0, faults>>

\* The results of p.ReadDir(): os.ReadDir's error comes wrapped by fmt.Errorf.
ListResults(f, p) ==
    {[out |-> ReadDir(f, p), fault |-> 0]} \cup
    (IF IsDir(f, p) /\ faults < MaxFaults
     THEN {[out |-> [err |-> Errorf("read directory", NewErr("EIO")), entries |-> <<>>],
            fault |-> 1]}
     ELSE {})

\* entries, err := p.ReadDir(); if err != nil { return errz.E(err, "reading directory entries") }
ListDir(pr) ==
    /\ At(pr, "listDir")
    /\ \E r \in ListResults(fs, Top(pr).p) :
          /\ faults' = faults + r.fault
          /\ IF r.out.err # NoErr
             THEN Return(pr, E(r.out.err, "reading directory entries", ""))
             ELSE /\ SetTop(pr, [Top(pr) EXCEPT !.entries = r.out.entries, !.i = 1,
                                                !.pc = "loop"])
                  /\ UNCHANGED <<ret, hist, call>>
    /\ UNCHANGED <<fs, phase, fs0>>

\* The loop that merges the directory itself where it is to merge its entry.
LoopOnItself(pr) ==
    /\ At(pr, "loop")
    /\ LET fr == Top(pr)
       IN  IF fr.i > Len(fr.entries)
           THEN Goto(pr, "deleteSrc")
           ELSE stack' = [stack EXCEPT ![pr] =
                    SubSeq(stack[pr], 1, Len(stack[pr]) - 1)
                    \o <<[fr EXCEPT !.pc = "afterCall"], Frame(fr.p, fr.dst)>>]
    /\ UNCHANGED <<fs, phase, ret, call, fs0, hist, faults>>

\* for i := range entries { ... srcPath.MergeMove(dstPath) ... }; after the
\* last entry: return p.Delete()
Loop(pr) ==
    /\ At(pr, "loop")
    /\ LET fr == Top(pr)
       IN  IF fr.i > Len(fr.entries)
           THEN Goto(pr, "deleteSrc")
           ELSE stack' = [stack EXCEPT ![pr] =
                    SubSeq(stack[pr], 1, Len(stack[pr]) - 1)
                    \o <<[fr EXCEPT !.pc = "afterCall"],
                         Frame(Join(fr.p, fr.entries[fr.i]), Join(fr.dst, fr.entries[fr.i]))>>]
    /\ UNCHANGED <<fs, phase, ret, call, fs0, hist, faults>>

\* The loop going on to the next entry after a failed one.
AfterCallGoesOn(pr) ==
    /\ At(pr, "afterCall")
    /\ SetTop(pr, [Top(pr) EXCEPT !.i = @ + 1, !.pc = "loop"])
    /\ UNCHANGED <<fs, phase, ret, call, fs0, hist, faults>>

\* if err := srcPath.MergeMove(dstPath); err != nil {
\*     return errz.E(err, "move file", "name", entryName) }
AfterCall(pr) ==
    /\ At(pr, "afterCall")
    /\ IF ret[pr] # NoErr
       THEN Return(pr, E(ret[pr], "move file", Top(pr).entries[Top(pr).i]))
       ELSE /\ SetTop(pr, [Top(pr) EXCEPT !.i = @ + 1, !.pc = "loop"])
            /\ UNCHANGED <<ret, hist, call>>
    /\ UNCHANGED <<fs, phase, fs0, faults>>

\* return p.Delete()
DeleteSrc(pr) ==
    /\ At(pr, "deleteSrc")
    /\ \E r \in Results(Delete(fs, Top(pr).p), Failed(fs)) :
          /\ fs' = r.out.fs
          /\ faults' = faults + r.fault
          /\ Return(pr, r.out.err)
    /\ UNCHANGED <<phase, fs0>>

MergeMove(pr) ==
    \/ ChkSrc(pr) \/ ChkDst(pr) \/ MkParent(pr) \/ RenameStraight(pr)
    \/ ChkReg(pr) \/ ChkDstDir(pr) \/ RenameInto(pr) \/ ChkDstReg(pr)
    \/ DeleteOld(pr) \/ RenameOver(pr) \/ ChkSrcDir(pr) \/ ChkDstIsDir(pr)
    \/ ListDir(pr) \/ Loop(pr) \/ AfterCall(pr) \/ DeleteSrc(pr)

\* The arguments of a call: a source that exists or whose parent does, a
\* destination that exists or lacks at most itself and its parent.
SrcArgs(f) == {q \in Paths(MaxDepth) \ {Root} : Dir(q) \in DOMAIN f}

DstArgs(f) == {q \in Paths(MaxDepth) : Dir(Dir(q)) \in DOMAIN f}

CallMergeMove ==
    \E pr \in Procs, p \in SrcArgs(fs), dst \in DstArgs(fs) :
        Call(pr, p, dst)

StepMergeMove == \E pr \in Procs : MergeMove(pr)

Next ==
    \/ DoWriteFile
    \/ DoMkdirIfNotExist
    \/ Mknod
    \/ CallMergeMove
    \/ StepMergeMove

Spec == Init /\ [][Next]_vars

\* ------------------------------------------- MergeMove, run alone --------
\* os.Rename(string(p), string(dst)) and the return that follows it, when
\* nothing else touches the tree and no primitive fails from outside.
RenameAlone(f, p, dst) ==
    LET o == OsRename(f, p, dst)
    IN  Outcome(IF o.err # NoErr THEN E(o.err, "rename file", "") ELSE NoErr, o.fs)

\* p.MergeMove(dst) from its call to its return, when nothing else touches
\* the tree and no primitive fails from outside: the error it returns and
\* the tree it leaves.
RECURSIVE MergeMoveAlone(_, _, _)
RECURSIVE MergeEntriesAlone(_, _, _, _, _)
MergeMoveAlone(f, p, dst) ==
    IF ~Exists(f, p) THEN Outcome(E(NoErr, "source file does not exist", ""), f)
    ELSE IF ~Exists(f, dst)
    THEN LET m == MkdirIfNotExist(f, Dir(dst))
         IN  IF m.err # NoErr
             THEN Outcome(E(m.err, "create parent directory", ""), m.fs)
             ELSE RenameAlone(m.fs, p, dst)
    ELSE IF IsRegular(f, p)
    THEN IF IsDir(f, dst) THEN RenameAlone(f, p, JoinPath(dst, Base(p)))
         ELSE IF ~IsRegular(f, dst)
         THEN Outcome(E(NoErr, "destination is not a regular file", ""), f)
         ELSE LET d == Delete(f, dst)
              IN  IF d.err # NoErr
                  THEN Outcome(E(d.err, "delete old file", ""), d.fs)
                  ELSE RenameAlone(d.fs, p, dst)
    ELSE IF ~IsDir(f, p)
    THEN Outcome(E(NoErr, "source must be a regular file or directory", ""), f)
    ELSE IF ~IsDir(f, dst)
    THEN Outcome(E(NoErr, "destination is not a directory", ""), f)
    ELSE LET r == ReadDir(f, p)
         IN  IF r.err # NoErr
             THEN Outcome(E(r.err, "reading directory entries", ""), f)
             ELSE MergeEntriesAlone(f, p, dst, r.entries, 1)

\* The loop over the entries from entry i on, and the final p.Delete().
MergeEntriesAlone(f, p, dst, entries, i) ==
    IF i > Len(entries) THEN Delete(f, p)
    ELSE LET o == MergeMoveAlone(f, Join(p, entries[i]), Join(dst, entries[i]))
         IN  IF o.err # NoErr
             THEN Outcome(E(o.err, "move file", entries[i]), o.fs)
             ELSE MergeEntriesAlone(o.fs, p, dst, entries, i + 1)

\* ------------------------------------- two goroutines calling MergeMove --
\* Longest path of the trees and arguments of concurrent calls.
ConcDepth == 1

\* Most nodes below the base directory in the tree concurrent calls start from.
ConcNodes == 2

Goroutines == {1, 2}

\* The trees of directories and regular files within the bounds.
Trees ==
    LET Shapes == {D \in SUBSET (Paths(ConcDepth) \ {Root}) :
                      /\ Cardinality(D) <= ConcNodes
                      /\ \A q \in D : Dir(q) \in D \cup {Root}}
        Leaves(D) == {q \in D : \A n \in Names : Join(q, n) \notin D}
    IN  UNION {{[q \in D \cup {Root} |->
                    IF q \in L THEN FileNode(q) ELSE DirNode] : L \in SUBSET Leaves(D)}
               : D \in Shapes}

\* Two goroutines, neither in a call yet, on some tree; primitives do not
\* fail from outside in these runs.
InitConc ==
    /\ fs \in Trees
    /\ phase = "setup"
    /\ stack = [pr \in Goroutines |-> <<>>]
    /\ ret = [pr \in Goroutines |-> NoErr]
    /\ call = [pr \in Goroutines |-> Idle]
    /\ fs0 = fs
    /\ hist = [pr \in Goroutines |-> <<>>]
    /\ faults = MaxFaults

ConcArgs == Paths(ConcDepth) \ {Root}

\* Goroutine 1 calls p.MergeMove(dst).
CallFirst == \E p \in ConcArgs, dst \in ConcArgs : Call(1, p, dst)

\* Goroutine 2 calls p.MergeMove(dst) while goroutine 1 is in its call or
\* after it has returned; after says which.
CallSecond ==
    \E p \in ConcArgs, dst \in ConcArgs :
        /\ phase = "run"
        /\ call[2].state = "idle"
        /\ stack' = [stack EXCEPT ![2] = <<Frame(p, dst)>>]
        /\ call' = [call EXCEPT ![2] = [p |-> p, dst |-> dst, state |-> "running",
                                        last |-> NoFrame,
                                        after |-> call[1].state = "done"]]
        /\ UNCHANGED <<fs, phase, ret, fs0, hist, faults>>

\* No lock is taken: whichever goroutine is in a call takes its next step.
StepConc == \E pr \in Goroutines : MergeMove(pr)

NextConc == CallFirst \/ CallSecond \/ StepConc

SpecConc == InitConc /\ [][NextConc]_vars

\* --------------------------------- MergeMove, from call to return -------
\* Longest path of the trees a call that is followed to its return starts from.
LiveDepth == 3

\* Most nodes below the base directory in such a tree.
LiveNodes == 3

\* The sets of at most n paths that make a tree below the base directory.
RECURSIVE Shapes(_)
Shapes(n) ==
    IF n = 0 THEN {{}}
    ELSE LET S == Shapes(n - 1)
         IN  S \cup UNION {{D \cup {q} : q \in {r \in Paths(LiveDepth) \ {Root} :
                                                   Dir(r) \in D \cup {Root}}}
                           : D \in S}

\* The trees of directories, regular files and special files within these
\* bounds.
LiveTrees ==
    LET Leaves(D) == {q \in D : \A n \in Names : Join(q, n) \notin D}
        Kinds(D) == [Leaves(D) -> {"dir", "file", "special"}]
    IN  UNION {{[q \in D \cup {Root} |->
                    IF q \notin Leaves(D) \/ k[q] = "dir" THEN DirNode
                    ELSE IF k[q] = "file" THEN FileNode(q) ELSE SpecialNode]
                : k \in Kinds(D)}
               : D \in Shapes(LiveNodes)}

\* No call yet, on some tree.
InitLive ==
    /\ fs \in LiveTrees
    /\ phase = "setup"
    /\ stack = [pr \in Procs |-> <<>>]
    /\ ret = [pr \in Procs |-> NoErr]
    /\ call = [pr \in Procs |-> Idle]
    /\ fs0 = fs
    /\ hist = [pr \in Procs |-> <<>>]
    /\ faults = 0

NextLive == CallMergeMove \/ StepMergeMove

\* A goroutine that has called MergeMove runs on: no scheduler keeps it from
\* its next step for ever, and nothing else can end the call (there is no
\* cancellation and no timeout).
SpecLive == InitLive /\ [][NextLive]_vars /\ WF_vars(StepMergeMove)

\* -------------------- Move, Copy, Truncate, Create, MkdirIfNotExist -----
\* Longest path (in segments) the operating system accepts (PATH_MAX).
MaxPathLen == 5

\* A regular file of size 0.
EmptyFile == FileNode(NoData)

\* A failed step of a result r, its error wrapped by fmt.Errorf("msg: %w", err).
Wrapped(r, msg) == [r EXCEPT !.out.err = Errorf(msg, @)]

\* A result that no failure from outside produced.
Plain(err, f) == Fault(Outcome(err, f), FALSE)

\* Path.Rename(n): the results it can have.
Rename(f, p, n) ==
    UNION {IF m.out.err # NoErr THEN {Wrapped(m, "create parent directory")}
           ELSE Results(OsRename(m.out.fs, p, n), Failed(m.out.fs))
           : m \in MkParentResults(f, Dir(n))}

\* Move with the parent directories of dst made before the source is looked at.
MoveUnchecked(f, p, dst) ==
    UNION {IF m.out.err # NoErr THEN {Wrapped(m, "make parent directory")}
           ELSE IF ~IsExist(f, p)
           THEN {Plain(NewErr("source file does not exist"), m.out.fs)}
           ELSE Rename(m.out.fs, p, dst)
           : m \in MkParentResults(f, Dir(dst))}

\* Path.Move(dst): the results it can have.
Move(f, p, dst) ==
    IF ~IsExist(f, p) THEN {Plain(NewErr("source file does not exist"), f)}
    ELSE UNION {IF m.out.err # NoErr THEN {Wrapped(m, "make parent directory")}
                ELSE Rename(m.out.fs, p, dst)
                : m \in MkParentResults(f, Dir(dst))}

\* os.OpenFile(name, ...|os.O_CREATE|os.O_TRUNC, perm), which os.Create is
\* too: a regular file is cut to size 0, a missing one is created empty, a
\* special file is opened as it is.
OsOpenTrunc(f, p) ==
    IF Dir(p) \notin DOMAIN f THEN Outcome(NewErr("ENOENT"), f)
    ELSE IF ~IsDir(f, Dir(p)) THEN Outcome(NewErr("ENOTDIR"), f)
    ELSE IF IsDir(f, p) THEN Outcome(NewErr("EISDIR"), f)
    ELSE IF p \in DOMAIN f /\ ~IsRegular(f, p) THEN Outcome(NoErr, f)
    ELSE Outcome(NoErr, [q \in DOMAIN f \cup {p} |-> IF q = p THEN EmptyFile ELSE f[q]])

\* Create without its check that the path is free.
CreateUnchecked(f, p) ==
    UNION {IF m.out.err # NoErr THEN {Wrapped(m, "create parent directory")}
           ELSE Results(OsOpenTrunc(m.out.fs, p), Failed(m.out.fs))
           : m \in MkParentResults(f, Dir(p))}

\* Path.Create(): the results it can have.
Create(f, p) ==
    IF IsExist(f, p) THEN {Plain(NewErr("already exists"), f)}
    ELSE UNION {IF m.out.err # NoErr THEN {Wrapped(m, "create parent directory")}
                ELSE Results(OsOpenTrunc(m.out.fs, p), Failed(m.out.fs))
                : m \in MkParentResults(f, Dir(p))}

\* Path.OpenFile(flag|os.O_CREATE|os.O_TRUNC, perm)
OpenFileTrunc(f, p) ==
    IF IsDir(f, p) THEN Outcome(NewErr("can not open a directory"), f)
    ELSE LET m == MkdirIfNotExist(f, Dir(p))
         IN  IF m.err # NoErr THEN Outcome(Errorf("create parent directory", m.err), m.fs)
             ELSE OsOpenTrunc(m.fs, p)

\* Path.Open(): Path.OpenFile(os.O_RDONLY, 0), which makes the parent
\* directories of the file it is to read.
Open(f, p) ==
    IF IsDir(f, p) THEN Outcome(NewErr("can not open a directory"), f)
    ELSE LET m == MkdirIfNotExist(f, Dir(p))
         IN  IF m.err # NoErr THEN Outcome(Errorf("create parent directory", m.err), m.fs)
             ELSE IF p \notin DOMAIN m.fs THEN Outcome(NewErr("ENOENT"), m.fs)
             ELSE Outcome(NoErr, m.fs)

\* os.CopyFS(dst, os.DirFS(p)): the walk of p in lexical order.  At a
\* directory: os.MkdirAll of its counterpart under dst, then the entries as
\* they are read at that moment; a regular file is created with O_EXCL (an
\* existing name is an error) and written; anything else is an error.  The
\* first error ends the walk and what was copied stays.
RECURSIVE CopyDir(_, _, _, _)
RECURSIVE CopyEntries(_, _, _, _, _, _)
CopyDir(f, p, dst, rel) ==
    IF Len(dst \o rel) > MaxPathLen THEN Outcome(NewErr("ENAMETOOLONG"), f)
    ELSE LET m == MkdirAll(f, dst \o rel)
         IN  IF m.err # NoErr THEN m
             ELSE CopyEntries(m.fs, p, dst, rel, ReadDirNames(m.fs, p \o rel), 1)

CopyEntries(f, p, dst, rel, entries, i) ==
    IF i > Len(entries) THEN Outcome(NoErr, f)
    ELSE LET r == Append(rel, entries[i])
             s == p \o r
             t == dst \o r
             o == IF IsDir(f, s) THEN CopyDir(f, p, dst, r)
                  ELSE IF ~IsRegular(f, s) THEN Outcome(NewErr("EINVAL"), f)
                  ELSE IF t \in DOMAIN f THEN Outcome(NewErr("EEXIST"), f)
                  ELSE Outcome(NoErr, [q \in DOMAIN f \cup {t} |->
                                          IF q = t THEN FileNode(f[s].data) ELSE f[q]])
         IN  IF o.err # NoErr THEN o
             ELSE CopyEntries(o.fs, p, dst, rel, entries, i + 1)

CopyFS(f, dst, p) == CopyDir(f, p, dst, <<>>)

\* io.Copy(dest, src) into the file opened at d: what is read from p, as p
\* is at that moment, is written to d.  A special file at d takes the data
\* without keeping it; reading a special file at p gives no data or fails.
IoCopy(f, p, d) ==
    IF ~IsRegular(f, p) THEN {Plain(NoErr, f), Plain(NewErr("EINVAL"), f)}
    ELSE Results(IF IsRegular(f, d)
                 THEN Outcome(NoErr, [f EXCEPT ![d] = FileNode(f[p].data)])
                 ELSE Outcome(NoErr, f),
                 Failed(f))

\* Path.Copy(dst), p not a directory: src is opened, dst becomes
\* dst/basename(p) when it is a directory, its parents are made, it is
\* opened with O_TRUNC, and io.Copy runs.
CopyFile(f, p, dst) ==
    LET src == Open(f, p)
        d   == IF IsDir(src.fs, dst) THEN JoinPath(dst, Base(p)) ELSE dst
    IN  IF src.err # NoErr THEN {Plain(Errorf("open source file", src.err), src.fs)}
        ELSE LET m == MkdirIfNotExist(src.fs, Dir(d))
             IN  IF m.err # NoErr
                 THEN {Plain(Errorf("create parent directory", m.err), m.fs)}
                 ELSE LET dest == OpenFileTrunc(m.fs, d)
                      IN  IF dest.err # NoErr THEN {Plain(dest.err, dest.fs)}
                          ELSE IoCopy(dest.fs, p, d)

\* Path.Copy(dst): the results it can have.  A failure from outside is
\* injected where dst is made and, for a file, in io.Copy.
Copy(f, p, dst) ==
    IF IsDir(f, p)
    THEN UNION {IF m.out.err # NoErr THEN {m}
                ELSE {[out |-> CopyFS(m.out.fs, dst, p), fault |-> m.fault]}
                : m \in MkParentResults(f, dst)}
    ELSE CopyFile(f, p, dst)

\* os.Truncate(name, 0) on a regular file: the file is cut to size 0.
OsTruncate(f, p) == Outcome(NoErr, [f EXCEPT ![p] = EmptyFile])

\* errz.If(err, msg): nil when err is nil, err wrapped with msg otherwise.
If(r, msg) == IF r.out.err # NoErr THEN [r EXCEPT !.out.err = E(@, msg, "")] ELSE r

\* Truncate that deletes a directory and does not make it again.
TruncateDeletes(f, p) ==
    IF IsRegular(f, p)
    THEN {If(r, "truncate file") : r \in Results(OsTruncate(f, p), Failed(f))}
    ELSE IF IsDir(f, p)
    THEN {If(d, "delete directory") : d \in Results(Delete(f, p), Failed(f))}
    ELSE {Plain(E(NoErr, "unsupported target", ""), f)}

\* Path.Truncate(): the results it can have.
Truncate(f, p) ==
    IF IsRegular(f, p)
    THEN {If(r, "truncate file") : r \in Results(OsTruncate(f, p), Failed(f))}
    ELSE IF IsDir(f, p)
    THEN UNION {IF d.out.err # NoErr THEN {If(d, "delete directory")}
                ELSE {If(m, "recreate directory") : m \in MkParentResults(d.out.fs, p)}
                : d \in Results(Delete(f, p), Failed(f))}
    ELSE {Plain(E(NoErr, "unsupported target", ""), f)}

\* Path.Size(): the size os.Stat reports.
Size(f, p) == Len(f[p].data)

\* Path.IsEmpty()
IsEmpty(f, p) ==
    IF ~IsExist(f, p) THEN TRUE
    ELSE IF IsDir(f, p)
    THEN LET r == ReadDir(f, p) IN r.err = NoErr /\ Len(r.entries) = 0
    ELSE Size(f, p) = 0

\* A call of a one-step operation by goroutine pr: the operation, its
\* receiver p and argument dst, and one of its results.
Op(pr, name, p, dst, r) ==
    /\ phase = "setup"
    /\ call[pr].state = "idle"
    /\ phase' = "run"
    /\ call' = [call EXCEPT ![pr] = [p |-> p, dst |-> dst, state |-> "done",
                                     last |-> NoFrame, op |-> name]]
    /\ fs0' = fs
    /\ fs' = r.out.fs
    /\ ret' = [ret EXCEPT ![pr] = r.out.err]
    /\ faults' = faults + r.fault
    /\ UNCHANGED <<stack, hist>>

\* The paths Truncate, Create and MkdirIfNotExist are called on.
PathArgs(f) == DstArgs(f) \ {Root}

CallMove ==
    /\ phase = "setup"
    /\ \E pr \in Procs, p \in SrcArgs(fs), dst \in DstArgs(fs) :
          \E r \in Move(fs, p, dst) : Op(pr, "Move", p, dst, r)

CallCopy ==
    /\ phase = "setup"
    /\ \E pr \in Procs, p \in SrcArgs(fs), dst \in DstArgs(fs) :
          \E r \in Copy(fs, p, dst) : Op(pr, "Copy", p, dst, r)

CallCreate ==
    /\ phase = "setup"
    /\ \E pr \in Procs, p \in PathArgs(fs) :
          \E r \in Create(fs, p) : Op(pr, "Create", p, Root, r)

CallMkdirIfNotExist ==
    /\ phase = "setup"
    /\ \E pr \in Procs, p \in PathArgs(fs) :
          \E r \in MkParentResults(fs, p) : Op(pr, "MkdirIfNotExist", p, Root, r)

CallTruncate ==
    /\ phase = "setup"
    /\ \E pr \in Procs, p \in PathArgs(fs) :
          \E r \in Truncate(fs, p) : Op(pr, "Truncate", p, Root, r)

NextOps ==
    \/ DoWriteFile
    \/ DoMkdirIfNotExist
    \/ Mknod
    \/ CallMove
    \/ CallCopy
    \/ CallCreate
    \/ CallMkdirIfNotExist
    \/ CallTruncate

SpecOps == Init /\ [][NextOps]_vars

\* ------------------------------------------------ paths as strings ------
\* A string is the sequence of its characters.
\* Most segments of the paths IsChildOf and IsParentOf are called on.
MaxSegs == 3

\* Most parameters of the query of a path QueryAdd and QuerySet are called on.
MaxPairs == 2

\* Longest path WithQuery is called on, and longest query it is given.
MaxChars == 3

\* The characters that occur, in the order of their codes.
CharOrder == <<" ", "&", "+", "/", "=", "?", "a", "b", "p", "x", "y">>

Code(c) == CHOOSE k \in 1..Len(CharOrder) : CharOrder[k] = c

EmptyString == <<>>

\* All strings of at most n characters from the set C.
RECURSIVE Strings(_, _)
Strings(C, n) ==
    IF n = 0 THEN {EmptyString}
    ELSE Strings(C, n - 1) \cup {Append(t, c) : t \in Strings(C, n - 1), c \in C}

\* strings.HasPrefix(s, prefix)
HasPrefix(s, prefix) == Len(prefix) <= Len(s) /\ SubSeq(s, 1, Len(prefix)) = prefix

\* strings.Contains(s, c), c one character
Contains(s, c) == \E k \in 1..Len(s) : s[k] = c

Index(s, c) == CHOOSE k \in 1..Len(s) : s[k] = c /\ \A j \in 1..(k - 1) : s[j] # c

\* strings.Split(s, c), c one character: element n of the Go slice is
\* element n + 1 of the sequence.
RECURSIVE Split(_, _)
Split(s, c) ==
    IF ~Contains(s, c) THEN <<s>>
    ELSE <<SubSeq(s, 1, Index(s, c) - 1)>> \o Split(SubSeq(s, Index(s, c) + 1, Len(s)), c)

\* strings.Join(parts, c)
RECURSIVE JoinStrings(_, _)
JoinStrings(parts, c) ==
    IF parts = <<>> THEN EmptyString
    ELSE IF Len(parts) = 1 THEN parts[1]
    ELSE parts[1] \o <<c>> \o JoinStrings(Tail(parts), c)

\* s < t as Go compares strings.
RECURSIVE Less(_, _)
Less(s, t) ==
    IF t = EmptyString THEN FALSE
    ELSE IF s = EmptyString THEN TRUE
    ELSE IF Head(s) # Head(t) THEN Code(Head(s)) < Code(Head(t))
    ELSE Less(Tail(s), Tail(t))

\* The strings of S in increasing order.
RECURSIVE Sorted(_)
Sorted(S) ==
    IF S = {} THEN <<>>
    ELSE LET m == CHOOSE x \in S : \A y \in S \ {x} : Less(x, y)
         IN  <<m>> \o Sorted(S \ {m})

\* Path.IsChildOf(parent)
IsChildOf(p, parent) == HasPrefix(p, parent)

\* Path.IsParentOf(child)
IsParentOf(p, child) == IsChildOf(child, p)

\* Path.HasQuery()
HasQuery(p) == Contains(p, "?")

\* Path.WithoutQuery() (Path.TrimQuery in path.go)
WithoutQuery(p) == IF ~HasQuery(p) THEN p ELSE Split(p, "?")[1]

\* WithQuery that does not drop the query the path has.
WithQueryAppended(p, q) == IF q = EmptyString THEN WithoutQuery(p) ELSE p \o <<"?">> \o q

\* Path.WithQuery(q)
WithQuery(p, q) ==
    IF q = EmptyString THEN WithoutQuery(p) ELSE WithoutQuery(p) \o <<"?">> \o q

\* Path.Query()
Query(p) == IF ~HasQuery(p) THEN EmptyString ELSE Split(p, "?")[2]

\* url.QueryUnescape and url.QueryEscape on the characters that occur: "+"
\* stands for a space, the other characters for themselves ("%" and ";",
\* which make url.ParseQuery fail, do not occur).
QueryUnescape(s) == [k \in 1..Len(s) |-> IF s[k] = "+" THEN " " ELSE s[k]]

QueryEscape(s) == [k \in 1..Len(s) |-> IF s[k] = " " THEN "+" ELSE s[k]]

\* url.Values: a map from each key to the list of its values.
NoValues == [k \in {} |-> <<>>]

\* Values.Add(k, v)
ValuesAdd(m, k, v) ==
    [j \in DOMAIN m \cup {k} |->
        IF j # k THEN m[j] ELSE IF k \in DOMAIN m THEN Append(m[k], v) ELSE <<v>>]

\* Values.Set(k, v)
ValuesSet(m, k, v) == [j \in DOMAIN m \cup {k} |-> IF j # k THEN m[j] ELSE <<v>>]

\* url.ParseQuery: the parameters between "&", empty ones skipped, each cut
\* at its first "=" into key and value, both unescaped.
RECURSIVE ParseParts(_, _)
ParseParts(parts, m) ==
    IF parts = <<>> THEN m
    ELSE IF Head(parts) = EmptyString THEN ParseParts(Tail(parts), m)
    ELSE LET kv    == Head(parts)
             key   == IF Contains(kv, "=") THEN SubSeq(kv, 1, Index(kv, "=") - 1) ELSE kv
             value == IF Contains(kv, "=") THEN SubSeq(kv, Index(kv, "=") + 1, Len(kv))
                      ELSE EmptyString
         IN  ParseParts(Tail(parts), ValuesAdd(m, QueryUnescape(key), QueryUnescape(value)))

ParseQuery(q) == ParseParts(Split(q, "&"), NoValues)

\* Values.Encode(): "key=value" for every value of every key, the keys
\* sorted, joined by "&".
RECURSIVE EncodeKeys(_, _)
EncodeKeys(keys, m) ==
    IF keys = <<>> THEN <<>>
    ELSE [k \in 1..Len(m[Head(keys)]) |->
             QueryEscape(Head(keys)) \o <<"=">> \o QueryEscape(m[Head(keys)][k])]
         \o EncodeKeys(Tail(keys), m)

Encode(m) == JoinStrings(EncodeKeys(Sorted(DOMAIN m), m), "&")

\* toString(v) for a value that is a string: fmt.Sprint gives the string.
toString(v) == v

\* Path.QuerySet(k, v); url.ParseQuery does not fail on the characters that occur.
QuerySet(p, k, v) == WithQuery(p, Encode(ValuesSet(ParseQuery(Query(p)), k, toString(v))))

\* Path.QueryAdd(k, v)
QueryAdd(p, k, v) == WithQuery(p, Encode(ValuesAdd(ParseQuery(Query(p)), k, toString(v))))

\* The names of path segments: one is the beginning of another.
SegNames == {<<"a">>, <<"b">>, <<"a", "b">>}

\* filepath.Join of at most n segments: the segments with "/" between them.
RECURSIVE PathStrings(_)
PathStrings(n) ==
    IF n = 1 THEN SegNames
    ELSE PathStrings(n - 1) \cup {t \o <<"/">> \o g : t \in PathStrings(n - 1), g \in SegNames}

QueryKeys == {<<"a">>, <<"b">>}

QueryValues == {<<"x">>, <<"y">>, <<"x", " ", "y">>}

\* The queries of at most n escaped parameters "key=value".
RECURSIVE Queries(_)
Queries(n) ==
    IF n = 0 THEN {EmptyString}
    ELSE Queries(n - 1) \cup
         {(IF t = EmptyString THEN t ELSE t \o <<"&">>) \o k \o <<"=">> \o QueryEscape(v) :
             t \in Queries(n - 1) \ (IF n = 1 THEN {} ELSE Queries(n - 2)),
             k \in QueryKeys, v \in QueryValues}

\* The calls of the string functions: the function, its receiver p and its
\* arguments.
StringCall(op, p, args) ==
    [op |-> op, p |-> p, args |-> args, state |-> "idle", last |-> NoFrame]

StringCalls ==
    {StringCall(op, p, <<q>>) :
        op \in {"IsChildOf", "IsParentOf"}, p \in PathStrings(MaxSegs), q \in PathStrings(MaxSegs)}
    \cup
    {StringCall(op, IF q = EmptyString THEN <<"p">> ELSE <<"p", "?">> \o q, <<k, v>>) :
        op \in {"QueryAdd", "QuerySet"}, q \in Queries(MaxPairs),
        k \in QueryKeys, v \in QueryValues}
    \cup
    {StringCall("WithQuery", p, <<q>>) :
        p \in Strings({"p", "?", "a"}, MaxChars), q \in Strings({"a", "=", "?"}, MaxChars)}

\* Some call of a string function is about to be made.
InitStr ==
    /\ fs = [q \in {Root} |-> DirNode]
    /\ phase = "run"
    /\ stack = [pr \in Procs |-> <<>>]
    /\ ret = [pr \in Procs |-> NoErr]
    /\ call \in [Procs -> StringCalls]
    /\ fs0 = fs
    /\ hist = [pr \in Procs |-> <<>>]
    /\ faults = 0

\* The call of op returns out.
Apply(pr, op, out) ==
    /\ call[pr].state = "idle"
    /\ call[pr].op = op
    /\ ret' = [ret EXCEPT ![pr] = out]
    /\ call' = [call EXCEPT ![pr].state = "done"]
    /\ UNCHANGED <<fs, phase, stack, fs0, hist, faults>>

CallIsChildOf ==
    \E pr \in Procs : Apply(pr, "IsChildOf", IsChildOf(call[pr].p, call[pr].args[1]))

CallIsParentOf ==
    \E pr \in Procs : Apply(pr, "IsParentOf", IsParentOf(call[pr].p, call[pr].args[1]))

CallQueryAdd ==
    \E pr \in Procs :
        Apply(pr, "QueryAdd", QueryAdd(call[pr].p, call[pr].args[1], call[pr].args[2]))

CallQuerySet ==
    \E pr \in Procs :
        Apply(pr, "QuerySet", QuerySet(call[pr].p, call[pr].args[1], call[pr].args[2]))

CallWithQuery ==
    \E pr \in Procs : Apply(pr, "WithQuery", WithQuery(call[pr].p, call[pr].args[1]))

NextStr ==
    \/ CallIsChildOf
    \/ CallIsParentOf
    \/ CallQueryAdd
    \/ CallQuerySet
    \/ CallWithQuery

SpecStr == InitStr /\ [][NextStr]_vars

\* ------------------------------------------------- the top-level call ---
Running(pr) == call[pr].state # "idle"

Done(pr) == call[pr].state = "done"

Src(pr) == call[pr].p

Dst(pr) == call[pr].dst

Succeeded(pr) == Done(pr) /\ ret[pr] = NoErr

\* The relative paths of the regular files below p.
RelFiles(f, p) == {r \in DOMAIN Subtree(f, p) : f[p \o r].kind = "file"}

\* Where a regular file moved into the directory dst lands.
Target(pr) == JoinPath(Dst(pr), Base(Src(pr)))

\* ------------------------------------------------------------- C1 -------
\* C1: MergeMove on a source that does not exist returns the error "source
\* file does not exist", and the filesystem is at every moment of the call,
\* and after it, what it was when the call was made.
C1_MissingSourceChangesNothing ==
    \A pr \in Procs :
        Running(pr) /\ ~Exists(fs0, Src(pr)) =>
            /\ fs = fs0
            /\ Done(pr) => ret[pr] = E(NoErr, "source file does not exist", "")

\* The call has returned for a missing source whose destination lacks its
\* parent directory too.
C1_Witness ==
    \E pr \in Procs :
        /\ Done(pr)
        /\ ~Exists(fs0, Src(pr))
        /\ ~Exists(fs0, Dst(pr))
        /\ ~Exists(fs0, Dir(Dst(pr)))

\* ------------------------------------------------------------- C2 -------
C2_Case(pr) ==
    /\ Done(pr)
    /\ Exists(fs0, Src(pr))
    /\ fs0[Src(pr)].kind \in {"file", "dir"}
    /\ ~Exists(fs0, Dst(pr))

C2_Moved(pr) ==
    /\ ~Exists(fs, Src(pr))
    /\ Exists(fs, Dst(pr))
    /\ Subtree(fs, Dst(pr)) = Subtree(fs0, Src(pr))
    /\ \A q \in Prefixes(Dst(pr)) \ {Dst(pr)} : IsDir(fs, q)

\* The straight move cannot be done: an ancestor of dst is not a directory,
\* or dst lies inside the source.
C2_Blocked(pr) ==
    \/ \E q \in Prefixes(Dst(pr)) : Exists(fs0, q) /\ ~IsDir(fs0, q)
    \/ IsPrefix(Src(pr), Dst(pr))

\* C2 as stated: for every existing source (regular file or directory) and
\* every dst that does not exist, MergeMove ends with source absent and dst
\* present, holding the source's content or entries, and with every missing
\* ancestor of dst created.
C2_AsStated == \A pr \in Procs : C2_Case(pr) => C2_Moved(pr)

\* C2, amended: for every existing source (regular file or directory) and
\* every dst that does not exist, a MergeMove that returns success ends with
\* source absent and dst present, holding the source's tree, and with every
\* missing ancestor of dst created; when no primitive fails from outside, it
\* returns success unless an ancestor of dst is not a directory or dst lies
\* inside the source.
C2_StraightMove ==
    \A pr \in Procs :
        C2_Case(pr) =>
            /\ ret[pr] = NoErr => C2_Moved(pr)
            /\ faults = 0 => (ret[pr] = NoErr <=> ~C2_Blocked(pr))

\* A directory with an entry has been moved to a dst whose parent was missing.
C2_Witness ==
    \E pr \in Procs :
        /\ C2_Case(pr)
        /\ ret[pr] = NoErr
        /\ IsDir(fs0, Src(pr))
        /\ RelFiles(fs0, Src(pr)) # {}
        /\ ~Exists(fs0, Dir(Dst(pr)))

\* ------------------------------------------------------------- C3 -------
C3_Case(pr) == Done(pr) /\ IsRegular(fs0, Src(pr)) /\ IsRegular(fs0, Dst(pr))

C3_Overwritten(pr) ==
    /\ IsRegular(fs, Dst(pr))
    /\ fs[Dst(pr)].data = fs0[Src(pr)].data
    /\ ~Exists(fs, Src(pr))

\* C3 as stated: for every source and dst that both name existing regular
\* files, MergeMove ends with dst holding the source's content and source
\* absent.
C3_AsStated == \A pr \in Procs : C3_Case(pr) => C3_Overwritten(pr)

\* C3, amended: for every source and dst that both name existing regular
\* files, a MergeMove that returns success ends with dst holding the source's
\* content and source absent, every other path being as before; when no
\* primitive fails from outside and dst is not the source itself, it returns
\* success.
C3_FileOverFile ==
    \A pr \in Procs :
        C3_Case(pr) =>
            /\ ret[pr] = NoErr =>
                  /\ C3_Overwritten(pr)
                  /\ \A q \in (DOMAIN fs0 \cup DOMAIN fs) \ {Src(pr), Dst(pr)} :
                        q \in DOMAIN fs0 /\ q \in DOMAIN fs /\ fs[q] = fs0[q]
            /\ faults = 0 /\ Src(pr) # Dst(pr) => ret[pr] = NoErr

\* A file has replaced a file of different content.
C3_Witness ==
    \E pr \in Procs :
        /\ C3_Case(pr)
        /\ ret[pr] = NoErr
        /\ fs0[Src(pr)].data # fs0[Dst(pr)].data

\* ------------------------------------------------------------- C4 -------
C4_Case(pr) == Done(pr) /\ IsRegular(fs0, Src(pr)) /\ IsDir(fs0, Dst(pr))

\* C4 as stated: for every existing regular-file source and every existing
\* directory dst, whatever dst contains, MergeMove ends with
\* dst/basename(source) holding the source's content and source absent.
C4_AsStated ==
    \A pr \in Procs :
        C4_Case(pr) =>
            /\ IsRegular(fs, Target(pr))
            /\ fs[Target(pr)].data = fs0[Src(pr)].data
            /\ ~Exists(fs, Src(pr))

\* C4, amended: for every existing regular-file source and every existing
\* directory dst, a MergeMove that returns success ends with
\* dst/basename(source) holding the source's content and, unless dst is the
\* directory the source is in (then nothing changes), with source absent; if
\* dst holds a directory named basename(source) the call fails with a
\* "rename file" error and changes nothing; otherwise, when no primitive
\* fails from outside, it returns success.
C4_FileIntoDir ==
    \A pr \in Procs :
        C4_Case(pr) =>
            /\ ret[pr] = NoErr =>
                  /\ IsRegular(fs, Target(pr))
                  /\ fs[Target(pr)].data = fs0[Src(pr)].data
                  /\ IF Dir(Src(pr)) = Dst(pr) THEN fs = fs0 ELSE ~Exists(fs, Src(pr))
            /\ IsDir(fs0, Target(pr)) =>
                  /\ ret[pr] = E(NewErr("EEXIST"), "rename file", "")
                  /\ fs = fs0
            /\ faults = 0 /\ ~IsDir(fs0, Target(pr)) => ret[pr] = NoErr

\* A file has been moved into another directory, over a file of the same
\* name and different content.
C4_Witness ==
    \E pr \in Procs :
        /\ C4_Case(pr)
        /\ ret[pr] = NoErr
        /\ Dir(Src(pr)) # Dst(pr)
        /\ IsRegular(fs0, Target(pr))
        /\ fs0[Target(pr)].data # fs0[Src(pr)].data

\* ------------------------------------------------------------- C5 -------
C5_Case(pr) == Succeeded(pr) /\ IsDir(fs0, Src(pr)) /\ IsDir(fs0, Dst(pr))

\* C5: for every existing directory source and every existing directory
\* dst, a MergeMove that returns success has put every file that was under
\* source at the same relative path under dst with identical content, and the
\* source directory no longer exists.
C5_AsStated ==
    \A pr \in Procs :
        C5_Case(pr) =>
            /\ \A r \in RelFiles(fs0, Src(pr)) :
                  /\ IsRegular(fs, Dst(pr) \o r)
                  /\ fs[Dst(pr) \o r].data = fs0[Src(pr) \o r].data
            /\ ~Exists(fs, Src(pr))

\* ------------------------------------------------------------- C6 -------
C6_Case(pr) ==
    /\ Running(pr)
    /\ IsDir(fs0, Src(pr))
    /\ Exists(fs0, Dst(pr))
    /\ ~IsDir(fs0, Dst(pr))

\* C6: for every existing directory source and every existing dst that is
\* not a directory, MergeMove returns the error "destination is not a
\* directory", and the filesystem is at every moment of the call, and after
\* it, what it was when the call was made.
C6_DirOntoNonDir ==
    \A pr \in Procs :
        C6_Case(pr) =>
            /\ fs = fs0
            /\ Done(pr) => ret[pr] = E(NoErr, "destination is not a directory", "")

\* The call has returned for a directory with a file in it and a dst that is
\* a regular file.
C6_Witness ==
    \E pr \in Procs :
        /\ C6_Case(pr)
        /\ Done(pr)
        /\ RelFiles(fs0, Src(pr)) # {}
        /\ IsRegular(fs0, Dst(pr))

\* ------------------------------------------------------------- C7 -------
\* The top-level call was a directory merge that failed at an entry.
C7_Case(pr) == Done(pr) /\ call[pr].last.pc = "afterCall"

\* C7: after a directory merge fails at some entry, every entry processed
\* before the failing one is under dst and absent from source, every entry
\* after it is in source as it was, and the source directory still exists.
C7_AsStated ==
    \A pr \in Procs :
        C7_Case(pr) =>
            LET es == call[pr].last.entries
                i  == call[pr].last.i
            IN  /\ \A k \in 1..(i - 1) :
                      /\ ~Exists(fs, Join(Src(pr), es[k]))
                      /\ Exists(fs, Join(Dst(pr), es[k]))
                /\ \A k \in (i + 1)..Len(es) :
                      Subtree(fs, Join(Src(pr), es[k])) = Subtree(fs0, Join(Src(pr), es[k]))
                /\ IsDir(fs, Src(pr))

\* ------------------------------------------------------------- C9 -------
\* C9: whenever MergeMove reaches the final delete of a source directory,
\* that directory contains no entries.
C9_AsStated ==
    \A pr \in Procs :
        At(pr, "deleteSrc") => ReadDirNames(fs, Top(pr).p) = <<>>

\* ------------------------------------------------------------- C8 -------
\* The first invocation of MergeMove that returned an error.
FirstFailure(h) ==
    CHOOSE k \in 1..Len(h) : h[k].err # NoErr /\ \A j \in 1..(k - 1) : h[j].err = NoErr

\* err as the enclosing directory merges hand it up, outermost entry first.
RECURSIVE WrapNames(_, _)
WrapNames(names, err) ==
    IF names = <<>> THEN err
    ELSE E(WrapNames(Tail(names), err), "move file", Head(names))

\* The top-level call is over and the MergeMove of some entry failed in it.
C8_Case(pr) ==
    /\ Done(pr)
    /\ \E k \in 1..Len(hist[pr]) :
          hist[pr][k].err # NoErr /\ Len(hist[pr][k].fr.p) > Len(Src(pr))

\* C8: the error a failed directory merge returns is the error of the first
\* invocation that failed, wrapped once per nesting level, outermost first,
\* with "move file" and the name of the entry whose recursive MergeMove
\* failed at that level; every invocation that returned before it returned
\* success, and no invocation is started after it: the ones that return
\* later are the directory merges that enclose it.
C8_FirstFailureWrapped ==
    \A pr \in Procs :
        C8_Case(pr) =>
            LET h  == hist[pr]
                k  == FirstFailure(h)
                q  == h[k].fr.p
            IN  /\ IsPrefix(Src(pr), q)
                /\ Len(q) > Len(Src(pr))
                /\ call[pr].last.pc = "afterCall"
                /\ ret[pr] = WrapNames(SubSeq(q, Len(Src(pr)) + 1, Len(q)), h[k].err)
                /\ Len(h) = k + Len(q) - Len(Src(pr))
                /\ \A j \in (k + 1)..Len(h) :
                      /\ h[j].fr.p = SubSeq(q, 1, Len(q) - (j - k))
                      /\ h[j].fr.pc = "afterCall"
                      /\ h[j].fr.entries[h[j].fr.i] = q[Len(h[j].fr.p) + 1]
                      /\ \A e \in 1..(h[j].fr.i - 1) :
                            \E b \in 1..(k - 1) :
                                h[b].fr.p = Join(h[j].fr.p, h[j].fr.entries[e])

\* A merge has failed two directories down, after an earlier entry was moved.
C8_Witness ==
    \E pr \in Procs :
        /\ C8_Case(pr)
        /\ Len(hist[pr][FirstFailure(hist[pr])].fr.p) >= Len(Src(pr)) + 2
        /\ FirstFailure(hist[pr]) > 1

\* ------------------------------------------------------------- C10 ------
\* What the operating system reports when a primitive fails.
Errnos == {"EIO", "ENOENT", "EEXIST", "ENOTDIR", "EINVAL"}

\* The step descriptions MergeMove wraps its primitives' failures with.
StepDescriptions ==
    {"create parent directory", "rename file", "delete old file",
     "reading directory entries"}

\* err, which stems from a failed primitive, has that failure wrapped with
\* the description of the step that failed.
StepNamed(err) ==
    LET n == Len(err)
    IN  /\ n >= 2
        /\ \/ err[n - 1].msg \in StepDescriptions
           \/ /\ n >= 3
              /\ err[n - 1].msg = "read directory"
              /\ err[n - 2].msg = "reading directory entries"

\* C10: every error MergeMove returns because a filesystem primitive failed
\* (creating the parent directories, rename, deleting the old destination,
\* listing the directory, deleting the source directory) is wrapped with a
\* description of the failing step.
C10_AsStated ==
    \A pr \in Procs :
        Done(pr) /\ ret[pr] # NoErr /\ ret[pr][Len(ret[pr])].msg \in Errnos =>
            StepNamed(ret[pr])

\* ------------------------------------------------------------- C11 ------
C11_Case(pr) ==
    /\ Running(pr)
    /\ IsRegular(fs0, Src(pr))
    /\ Exists(fs0, Dst(pr))
    /\ ~IsDir(fs0, Dst(pr))
    /\ ~IsRegular(fs0, Dst(pr))

\* C11: for every regular-file source and every existing dst that is neither
\* a directory nor a regular file, MergeMove returns the error "destination
\* is not a regular file", and the filesystem (source and dst included) is at
\* every moment of the call, and after it, what it was when the call was made.
C11_FileOntoSpecial ==
    \A pr \in Procs :
        C11_Case(pr) =>
            /\ fs = fs0
            /\ Done(pr) => ret[pr] = E(NoErr, "destination is not a regular file", "")

\* The call has returned for a regular file and a special file as dst.
C11_Witness ==
    \E pr \in Procs :
        /\ C11_Case(pr)
        /\ Done(pr)
        /\ fs0[Dst(pr)] = SpecialNode

\* ------------------------------------------------------------- C12 ------
BothDone == \A pr \in Goroutines : Done(pr)

\* What the two calls return and leave when goroutine x's call runs from
\* call to return before goroutine y's.
InOrder(x, y) ==
    LET ox == MergeMoveAlone(fs0, Src(x), Dst(x))
        oy == MergeMoveAlone(ox.fs, Src(y), Dst(y))
    IN  [pr \in Goroutines |-> IF pr = x THEN [err |-> ox.err, fs |-> oy.fs]
                                         ELSE [err |-> oy.err, fs |-> oy.fs]]

\* The return values and the final tree are those of one of the two
\* sequential orders of the calls.
Serialisable ==
    \E o \in {InOrder(1, 2), InOrder(2, 1)} :
        \A pr \in Goroutines : ret[pr] = o[pr].err /\ fs = o[pr].fs

\* The two calls touch a common path: an argument of one is at, above or
\* below an argument of the other.
Overlapping ==
    \E x \in {Src(1), Dst(1)}, y \in {Src(2), Dst(2)} : IsPrefix(x, y) \/ IsPrefix(y, x)

\* C12: two MergeMove calls whose return values and final tree are those of
\* neither sequential order have run concurrently, the second called while
\* the first was still in its call (calls made one after the other give what
\* that order gives), on overlapping paths; and such calls exist (C12_Witness).
C12_UnsafeOnlyWhenConcurrent ==
    BothDone =>
        /\ call[2].after => \A pr \in Goroutines :
                               ret[pr] = InOrder(1, 2)[pr].err /\ fs = InOrder(1, 2)[pr].fs
        /\ ~Serialisable => ~call[2].after /\ Overlapping

\* Both calls, each with a source and a dst that do not overlap, have
\* returned success, and the return values and the final tree are those of
\* neither sequential order.
C12_Witness ==
    /\ BothDone
    /\ \A pr \in Goroutines : ret[pr] = NoErr
    /\ \A pr \in Goroutines :
          ~IsPrefix(Src(pr), Dst(pr)) /\ ~IsPrefix(Dst(pr), Src(pr))
    /\ ~Serialisable
    /\ Overlapping

\* ------------------------------------------- the one-step operations ---
\* Goroutine pr has called the operation name, which has returned.
Called(pr, name) == Done(pr) /\ call[pr].op = name

\* Every path outside S is in g what it was in f.
SameOutside(f, g, S) ==
    \A q \in (DOMAIN f \cup DOMAIN g) \ S : q \in DOMAIN f /\ q \in DOMAIN g /\ f[q] = g[q]

\* The ancestors of p, p excluded.
Ancestors(p) == Prefixes(p) \ {p}

\* An ancestor of p exists and is not a directory.
BlockedAbove(f, p) == \E q \in Ancestors(p) : IsExist(f, q) /\ ~IsDir(f, q)

\* ------------------------------------------------------------- C13 ------
\* C13: Move(dst) on a source that does not exist returns the error "source
\* file does not exist" and leaves the filesystem as it was: no parent
\* directory of dst is created.
C13_MoveMissingSource ==
    \A pr \in Procs :
        Called(pr, "Move") /\ ~IsExist(fs0, Src(pr)) =>
            /\ ret[pr] = NewErr("source file does not exist")
            /\ fs = fs0

\* Move has returned for a missing source and a dst whose parent is missing.
C13_Witness ==
    \E pr \in Procs :
        /\ Called(pr, "Move")
        /\ ~IsExist(fs0, Src(pr))
        /\ ~IsExist(fs0, Dir(Dst(pr)))

\* ------------------------------------------------------------- C14 ------
C14_Case(pr) == Called(pr, "Move") /\ ret[pr] = NoErr

\* dst holds what the source path held, below parents that are directories.
C14_Arrived(pr) ==
    /\ IsExist(fs, Dst(pr))
    /\ Subtree(fs, Dst(pr)) = Subtree(fs0, Src(pr))
    /\ \A q \in Ancestors(Dst(pr)) : IsDir(fs, q)

\* C14 as stated: whenever Move(dst) returns success, the source path no
\* longer exists and dst exists holding the source's original content or
\* entries, with the missing parent directories of dst created.
C14_AsStated ==
    \A pr \in Procs : C14_Case(pr) => ~IsExist(fs, Src(pr)) /\ C14_Arrived(pr)

\* C14, amended: whenever Move(dst) returns success, dst exists holding the
\* source's original content or entries, with the missing parent directories
\* of dst created and every path outside source and dst as it was; the source
\* path no longer exists, unless dst is the source path itself, which is then
\* not a directory, and nothing has changed.
C14_MoveSucceeded ==
    \A pr \in Procs :
        C14_Case(pr) =>
            /\ IsExist(fs0, Src(pr))
            /\ C14_Arrived(pr)
            /\ SameOutside(fs0, fs, Under(fs0, Src(pr)) \cup Under(fs0, Dst(pr))
                                    \cup Under(fs, Dst(pr)) \cup Ancestors(Dst(pr)))
            /\ IF Dst(pr) = Src(pr)
               THEN fs = fs0 /\ ~IsDir(fs0, Src(pr))
               ELSE ~IsExist(fs, Src(pr))

\* A directory with a file in it has been moved to a dst whose parent was
\* missing.
C14_Witness ==
    \E pr \in Procs :
        /\ C14_Case(pr)
        /\ IsDir(fs0, Src(pr))
        /\ RelFiles(fs0, Src(pr)) # {}
        /\ ~IsExist(fs0, Dir(Dst(pr)))

\* ------------------------------------------------------------- C15 ------
\* Where Copy writes a regular file.
C15_Target(pr) == IF IsDir(fs0, Dst(pr)) THEN Target(pr) ELSE Dst(pr)

\* Copy has returned success for a source that is a regular file or a
\* directory, and the place it writes a regular file at was not a special
\* file.
C15_Case(pr) ==
    /\ Called(pr, "Copy")
    /\ ret[pr] = NoErr
    /\ IsRegular(fs0, Src(pr)) \/ IsDir(fs0, Src(pr))
    /\ IsExist(fs0, C15_Target(pr)) =>
          IsRegular(fs0, C15_Target(pr)) \/ IsDir(fs0, C15_Target(pr))

\* C15: whenever Copy(dst) returns success, the destination holds content
\* identical to the source's content before the call: a regular-file source
\* at dst, or at dst/basename(source) when dst is an existing directory; a
\* directory source each of its files at the same relative path under dst.
C15_AsStated ==
    \A pr \in Procs :
        C15_Case(pr) =>
            IF IsRegular(fs0, Src(pr))
            THEN /\ IsRegular(fs, C15_Target(pr))
                 /\ fs[C15_Target(pr)].data = fs0[Src(pr)].data
            ELSE \A r \in RelFiles(fs0, Src(pr)) :
                    /\ IsRegular(fs, Dst(pr) \o r)
                    /\ fs[Dst(pr) \o r].data = fs0[Src(pr) \o r].data

\* ------------------------------------------------------------- C16 ------
C16_Case(pr) == Called(pr, "MkdirIfNotExist")

\* The directory p and its missing parents have been made, nothing else.
C16_Made(pr) ==
    /\ \A q \in Prefixes(Src(pr)) : IsDir(fs, q)
    /\ SameOutside(fs0, fs, Prefixes(Src(pr)) \ DOMAIN fs0)
    /\ DOMAIN fs = DOMAIN fs0 \cup Prefixes(Src(pr))

\* C16 as stated (no primitive failing from outside): MkdirIfNotExist creates
\* the directory and its missing parents when the path is absent, returns nil
\* without changing anything when the path is a directory, and returns an
\* error without changing anything when the path exists but is not a
\* directory.
C16_AsStated ==
    \A pr \in Procs :
        C16_Case(pr) /\ faults = 0 =>
            /\ ~IsExist(fs0, Src(pr)) => ret[pr] = NoErr /\ C16_Made(pr)
            /\ IsDir(fs0, Src(pr)) => ret[pr] = NoErr /\ fs = fs0
            /\ IsExist(fs0, Src(pr)) /\ ~IsDir(fs0, Src(pr)) => ret[pr] # NoErr /\ fs = fs0

\* C16, amended: when the path is absent, MkdirIfNotExist fails with ENOTDIR
\* and changes nothing if an ancestor of the path exists and is not a
\* directory, and otherwise, unless os.MkdirAll fails from outside, returns
\* nil; whenever it returns nil the path and all its ancestors are
\* directories, nothing else has changed, and a second call returns nil and
\* changes nothing.  When the path is a directory it returns nil and changes
\* nothing; when the path exists but is not a directory it returns "already
\* exists but not a directory" and changes nothing.
C16_MkdirIfNotExist ==
    \A pr \in Procs :
        C16_Case(pr) =>
            /\ ~IsExist(fs0, Src(pr)) /\ BlockedAbove(fs0, Src(pr)) =>
                  ret[pr] = NewErr("ENOTDIR") /\ fs = fs0
            /\ ~IsExist(fs0, Src(pr)) /\ ~BlockedAbove(fs0, Src(pr)) /\ faults = 0 =>
                  ret[pr] = NoErr
            /\ ret[pr] = NoErr =>
                  /\ C16_Made(pr)
                  /\ MkdirIfNotExist(fs, Src(pr)) = Outcome(NoErr, fs)
            /\ IsDir(fs0, Src(pr)) => ret[pr] = NoErr /\ fs = fs0
            /\ IsExist(fs0, Src(pr)) /\ ~IsDir(fs0, Src(pr)) =>
                  ret[pr] = NewErr("already exists but not a directory") /\ fs = fs0

\* A directory has been made together with its missing parent.
C16_Witness ==
    \E pr \in Procs :
        /\ C16_Case(pr)
        /\ ret[pr] = NoErr
        /\ ~IsExist(fs0, Dir(Src(pr)))
        /\ IsDir(fs, Src(pr))

\* ------------------------------------------------------------- C17 ------
C17_Case(pr) == Called(pr, "Create")

\* An empty regular file is at p, below parents that are directories, and
\* nothing else has changed.
C17_Created(pr) ==
    /\ Src(pr) \in DOMAIN fs
    /\ fs[Src(pr)] = EmptyFile
    /\ \A q \in Ancestors(Src(pr)) : IsDir(fs, q)
    /\ SameOutside(fs0, fs, Prefixes(Src(pr)) \ DOMAIN fs0)
    /\ DOMAIN fs = DOMAIN fs0 \cup Prefixes(Src(pr))

\* C17 as stated (no primitive failing from outside): Create returns the
\* error "already exists" and leaves the path unchanged whenever the path
\* exists; otherwise it creates an empty regular file at the path, creating
\* any missing parent directories.
C17_AsStated ==
    \A pr \in Procs :
        C17_Case(pr) /\ faults = 0 =>
            IF IsExist(fs0, Src(pr))
            THEN ret[pr] = NewErr("already exists") /\ fs = fs0
            ELSE ret[pr] = NoErr /\ C17_Created(pr)

\* C17, amended: Create returns the error "already exists" and changes
\* nothing whenever the path exists.  When the path is absent it fails with a
\* "create parent directory" error and changes nothing if an ancestor of the
\* path exists and is not a directory, and otherwise, unless a primitive
\* fails from outside, returns success; whenever it returns success the path
\* is an empty regular file, its missing parent directories have been
\* created, and nothing else has changed.
C17_Create ==
    \A pr \in Procs :
        C17_Case(pr) =>
            /\ IsExist(fs0, Src(pr)) => ret[pr] = NewErr("already exists") /\ fs = fs0
            /\ ~IsExist(fs0, Src(pr)) /\ BlockedAbove(fs0, Src(pr)) =>
                  /\ ret[pr] # NoErr
                  /\ Head(ret[pr]).msg = "create parent directory"
                  /\ fs = fs0
            /\ ~IsExist(fs0, Src(pr)) /\ ~BlockedAbove(fs0, Src(pr)) /\ faults = 0 =>
                  ret[pr] = NoErr
            /\ ret[pr] = NoErr => ~IsExist(fs0, Src(pr)) /\ C17_Created(pr)

\* Create has been refused on a regular file that holds data.
C17_Witness ==
    \E pr \in Procs :
        /\ C17_Case(pr)
        /\ IsRegular(fs0, Src(pr))
        /\ fs0[Src(pr)] # EmptyFile
        /\ ret[pr] # NoErr

\* ------------------------------------------------------------- C18 ------
\* parent is p itself or an ancestor directory of p: its segments are the
\* first segments of p.
AtOrAbove(parent, p) == IsPrefix(Split(parent, "/"), Split(p, "/"))

\* C18: p.IsChildOf(parent), and equally parent.IsParentOf(p), is true
\* exactly when parent is p itself or an ancestor directory of p.
C18_AsStated ==
    \A pr \in Procs :
        /\ Called(pr, "IsChildOf") => (ret[pr] <=> AtOrAbove(call[pr].args[1], call[pr].p))
        /\ Called(pr, "IsParentOf") => (ret[pr] <=> AtOrAbove(call[pr].p, call[pr].args[1]))

\* ------------------------------------------------------------- C19 ------
\* The parameters of the query of p, as they are written, in their order.
Params(p) == IF Query(p) = EmptyString THEN <<>> ELSE Split(Query(p), "&")

KeyOf(param) == Split(param, "=")[1]

Param(k, v) == k \o <<"=">> \o QueryEscape(v)

\* p with the parameters params as its query.
WithParams(p, params) == WithoutQuery(p) \o <<"?">> \o JoinStrings(params, "&")

\* C19: QueryAdd(k, v) and QuerySet(k, v) return the path with its existing
\* query parameters kept in their original order, with k=v appended after
\* them when k is new; QueryAdd keeps an existing value of k and adds a
\* second one, QuerySet (on a query that has k once) replaces it.
C19_AsStated ==
    \A pr \in Procs :
        LET p   == call[pr].p
            k   == call[pr].args[1]
            v   == call[pr].args[2]
            old == Params(p)
            has == {n \in 1..Len(old) : KeyOf(old[n]) = k}
        IN  /\ Called(pr, "QueryAdd") =>
                  ret[pr] = WithParams(p, Append(old, Param(k, v)))
            /\ Called(pr, "QuerySet") /\ has = {} =>
                  ret[pr] = WithParams(p, Append(old, Param(k, v)))
            /\ Called(pr, "QuerySet") /\ Cardinality(has) = 1 =>
                  ret[pr] = WithParams(p, [n \in 1..Len(old) |->
                                              IF n \in has THEN Param(k, v) ELSE old[n]])

\* ------------------------------------------------------------- C20 ------
\* C20: for every path p and every non-empty query string q that contains no
\* "?", p.WithQuery(q).Query() is q and the part of the result before its
\* first "?" is p without its old query; p.WithQuery("") is p without any
\* query, and HasQuery() is false on it.
C20_WithQueryThenQuery ==
    \A pr \in Procs :
        Called(pr, "WithQuery") =>
            LET p == call[pr].p
                q == call[pr].args[1]
            IN  /\ q # EmptyString /\ ~Contains(q, "?") =>
                      /\ HasQuery(ret[pr])
                      /\ Query(ret[pr]) = q
                      /\ Split(ret[pr], "?")[1] = WithoutQuery(p)
                /\ q = EmptyString =>
                      /\ ret[pr] = WithoutQuery(p)
                      /\ ~HasQuery(ret[pr])

\* WithQuery has replaced the query of a path that had another one.
C20_Witness ==
    \E pr \in Procs :
        /\ Called(pr, "WithQuery")
        /\ Query(call[pr].p) # EmptyString
        /\ call[pr].args[1] # EmptyString
        /\ ~Contains(call[pr].args[1], "?")
        /\ Query(ret[pr]) = call[pr].args[1]
        /\ Query(ret[pr]) # Query(call[pr].p)

\* ------------------------------------------------------------- C21 ------
\* The top-level call overwrote nothing: source and dst were regular files,
\* dst was deleted, and the rename that follows failed.
C21_RenameFailed(pr) ==
    /\ C3_Case(pr)
    /\ call[pr].last.pc = "renameOver"
    /\ ret[pr] # NoErr

\* C21 as stated: in the file-onto-existing-file case MergeMove deletes dst
\* before it renames source to dst, so that between the two steps dst is
\* absent; and a call whose rename fails after the delete succeeded returns a
\* "rename file" error with dst gone and source still in place.
C21_AsStated ==
    \A pr \in Procs :
        /\ At(pr, "renameOver") => ~Exists(fs, Top(pr).dst)
        /\ C21_RenameFailed(pr) =>
              /\ Head(ret[pr]).msg = "rename file"
              /\ ~Exists(fs, Dst(pr))
              /\ IsRegular(fs, Src(pr))
              /\ fs[Src(pr)] = fs0[Src(pr)]

\* ------------------------------------------------------------- C22 ------
\* The length of the longest path of the tree.
Height(f) == CHOOSE n \in 0..Cardinality(DOMAIN f) :
                 /\ \A q \in DOMAIN f : Len(q) <= n
                 /\ \E q \in DOMAIN f : Len(q) = n

\* C22: MergeMove terminates on every finite tree: the recursion is never
\* deeper than the tree the call started on is high (plus the call itself),
\* and every call that has started returns, with success or with an error,
\* also when dst lies below source or source below dst.
C22_Terminates ==
    /\ [](\A pr \in Procs : Len(stack[pr]) <= Height(fs0) + 1)
    /\ \A pr \in Procs : (call[pr].state = "running") ~> Done(pr)

\* A call whose dst lies below its source has gone into the directory and
\* has returned.
C22_Witness ==
    \E pr \in Procs :
        /\ Done(pr)
        /\ IsDir(fs0, Src(pr))
        /\ IsPrefix(Src(pr), Dst(pr))
        /\ Src(pr) # Dst(pr)
        /\ Len(hist[pr]) > 1

\* ------------------------------------------------------------- C23 ------
C23_Case(pr) == Called(pr, "Truncate")

\* What a successful Truncate leaves: the regular file, now of size 0, or
\* the directory, now without entries; every other path as it was.
C23_Truncated(pr) ==
    /\ IsRegular(fs0, Src(pr)) =>
          /\ IsRegular(fs, Src(pr))
          /\ Size(fs, Src(pr)) = 0
          /\ DOMAIN fs = DOMAIN fs0
          /\ SameOutside(fs0, fs, {Src(pr)})
    /\ IsDir(fs0, Src(pr)) =>
          /\ IsDir(fs, Src(pr))
          /\ ReadDir(fs, Src(pr)).entries = <<>>
          /\ DOMAIN fs = (DOMAIN fs0 \ Under(fs0, Src(pr))) \cup {Src(pr)}
          /\ SameOutside(fs0, fs, Under(fs0, Src(pr)))

\* C23: Truncate on a regular file leaves it existing with size 0, and on a
\* directory leaves an existing directory with no entries: it returns
\* success unless a primitive fails from outside, and whenever it returns
\* success that is what it leaves.  On any other path, one that does not
\* exist included, it returns the error "unsupported target" and changes
\* nothing.  After every successful Truncate, IsEmpty() is true.
C23_Truncate ==
    \A pr \in Procs :
        C23_Case(pr) =>
            /\ IsRegular(fs0, Src(pr)) \/ IsDir(fs0, Src(pr)) =>
                  /\ faults = 0 => ret[pr] = NoErr
                  /\ ret[pr] = NoErr => C23_Truncated(pr)
            /\ ~IsRegular(fs0, Src(pr)) /\ ~IsDir(fs0, Src(pr)) =>
                  /\ ret[pr] = E(NoErr, "unsupported target", "")
                  /\ fs = fs0
            /\ ret[pr] = NoErr => IsEmpty(fs, Src(pr))

\* Truncate has emptied a directory that had entries.
C23_Witness ==
    \E pr \in Procs :
        /\ C23_Case(pr)
        /\ IsDir(fs0, Src(pr))
        /\ ReadDir(fs0, Src(pr)).entries # <<>>
        /\ ret[pr] = NoErr
        /\ IsDir(fs, Src(pr))
        /\ IsEmpty(fs, Src(pr))

\* ------------------------------------------------------------- C24 ------
\* The regular file at q holds what the source held when the call was made.
C24_Holds(pr, q) == IsRegular(fs, q) /\ fs[q].data = fs0[Src(pr)].data

\* C24 as stated: after any MergeMove call on a regular-file source, whether
\* it returns success or an error and for every dst (dst equal to source or to
\* the source's parent directory included), the source's original content
\* still exists at the source path or at the destination path (dst, or the
\* source's name in dst when dst is a directory).
C24_AsStated ==
    \A pr \in Procs :
        Done(pr) /\ IsRegular(fs0, Src(pr)) =>
            \/ C24_Holds(pr, Src(pr))
            \/ C24_Holds(pr, Dst(pr))
            \/ C24_Holds(pr, Target(pr))

====
